---- MODULE Spec2Model ----
(***************************************************************************)
(* Model of the Firestore-backed ticket store (package gcfirestore) of     *)
(* tixer-tickets: the Storer's five operations over one collection that    *)
(* holds the ticket documents and the counter document.                    *)
(*                                                                         *)
(* A ticket ID (a UUID) is a small integer, the nil UUID is 0, and the     *)
(* document name is the ID's string form.  Prices (float64) are small      *)
(* naturals; a title is the sequence of its code points; 0 and the empty   *)
(* title are the Go zero values.  Time is the store's commit               *)
(* clock: every committed transaction gets the next timestamp, 0 is the    *)
(* zero time.Time.                                                         *)
(*                                                                         *)
(* Spec: one caller, every operation.  SpecPaging: listings with cursors.  *)
(* SpecTraversal: a client paging forward.  SpecConc: two callers.         *)
(* SpecHTTP: the operations called through the HTTP handlers.              *)
(* SpecValidate: the title validation applied to titles of every length.   *)
(***************************************************************************)
EXTENDS Integers, Sequences, FiniteSets, TLC

\* ---- bounds of the model ------------------------------------------------
MaxID == 2
MaxClock == 3
MaxLimit == 2

\* ---- values of the program ----------------------------------------------
NilUUID == 0
IDs == 1..MaxID
\* the listings page through one ticket more than the other operations use
PageIDs == 1..(MaxID + 1)
\* A title (a Go string) is the sequence of its characters, each character
\* its code point: TitleA is "a", TitleB is "b", NoTitle is "".
TitleA == <<97>>
TitleB == <<98>>
TitleC == <<99>>
NoTitle == <<>>
Titles == {TitleA, TitleB}
Prices == {1, 2}
Callers == {"c1", "c2"}
counterDocID == "--counter--"
Faults == {"none", "Canceled"}

\* TicketID.String and its inverse uuid.MustParse
String(id) == ToString(id)
MustParse(s) == CHOOSE i \in {NilUUID} \cup PageIDs : ToString(i) = s

ZeroTicket == [ID |-> NilUUID, Title |-> NoTitle, Price |-> 0, DateCreated |-> 0, DateUpdated |-> 0]
ZeroFilter == [Before |-> NilUUID, After |-> NilUUID, Limit |-> 0]
ZeroMetadata == [Before |-> NilUUID, After |-> NilUUID, Total |-> 0]
NoSnapshot == [name |-> "", dateCreated |-> 0]

VARIABLES
    coll,      \* the collection: document name -> document fields
    now,       \* the store's commit clock (the last commit timestamp)
    calls,     \* per caller: the call in flight and its locals
    last,      \* the result of the call that returned last
    creates,   \* number of CreateTicket calls that returned nil
    deletes,   \* number of DeleteTicket calls that returned nil
    fresh,     \* ID -> the ticket passed to the create of the current
               \* document, while no update has committed on it
    trav,      \* a client's traversal of the listing, page after page
    resp,      \* the HTTP request decoded last and the response written to it
    vld        \* the title validated last and what the validator recorded

vars == <<coll, now, calls, last, creates, deletes, fresh, trav, resp, vld>>

IdleCall == [pc |-> "idle", ticket |-> ZeroTicket, filter |-> ZeroFilter,
             afterDoc |-> NoSnapshot, beforeDoc |-> NoSnapshot, tt |-> <<>>]

\* No traversal has started; no request has been decoded.
NoTraversal == [state |-> "off", limit |-> 0, acc |-> <<>>]
NoResponse == [handler |-> "none", id |-> NilUUID, title |-> <<>>, price |-> <<>>,
               filter |-> ZeroFilter, err |-> "OK", status |-> 0]

\* No title has been validated.
NoValidation == [checked |-> FALSE, title |-> NoTitle, valid |-> TRUE]

NoResult == [seq |-> 0, op |-> "none", id |-> NilUUID, filter |-> ZeroFilter,
             fault |-> "none", err |-> "OK", out |-> ZeroTicket, tt |-> <<>>,
             meta |-> ZeroMetadata]

\* A call returns: the ID or filter it was given, the fault injected into it
\* and its results replace `last`; seq flips on every return.
Return(op, id, filter, fault, err, out, tt, meta) ==
    last' = [seq |-> 1 - last.seq, op |-> op, id |-> id, filter |-> filter,
             fault |-> fault, err |-> err, out |-> out, tt |-> tt, meta |-> meta]

Exists(name) == name \in DOMAIN coll
Field(d, f, zero) == IF f \in DOMAIN d THEN d[f] ELSE zero
Without(c, name) == [n \in DOMAIN c \ {name} |-> c[n]]

\* ---- conversions ----------------------------------------------------------
docToPersistedTicket(name, d) ==
    [ID |-> name,
     Title |-> Field(d, "title", NoTitle),
     Price |-> Field(d, "price", 0),
     DateCreated |-> Field(d, "dateCreated", 0),
     DateUpdated |-> Field(d, "dateUpdated", 0)]

toDomainTicket(t) ==
    [ID |-> MustParse(t.ID), Title |-> t.Title, Price |-> t.Price,
     DateCreated |-> t.DateCreated, DateUpdated |-> t.DateUpdated]

docToPersistedCounter(d) == [TotalTickets |-> Field(d, "totalTickets", 0)]

\* ---- transactions ---------------------------------------------------------
\* RunTransaction reporting the function's own error in place of the
\* cancellation, when the function would have failed.
RunTransactionReportsDomainError(fault, tx) ==
    IF fault # "none"
    THEN [err |-> IF tx.err # "OK" THEN tx.err ELSE fault, coll |-> coll]
    ELSE tx

\* RunTransaction without atomicity: a failed transaction keeps its writes.
RunTransactionKeepsWrites(fault, tx) ==
    IF fault # "none" THEN [err |-> fault, coll |-> tx.coll] ELSE tx

\* RunTransaction: the function's writes commit together, or, when the
\* context is cancelled or the store is unavailable, not at all.
RunTransaction(fault, tx) ==
    IF fault # "none" THEN [err |-> fault, coll |-> coll] ELSE tx

\* The counter written with the value n in place of the Increment(n)
\* transform.
IncrementCounterSetsValue(c, n) == [c EXCEPT ![counterDocID].totalTickets = n]

\* tx.Update(cRef, totalTickets: Increment(n)): the counter must exist.
IncrementCounter(c, n) == [c EXCEPT ![counterDocID].totalTickets = @ + n]

\* CreateTicket with the two writes outside a transaction: the ticket stays
\* when the increment of the counter fails.
CreateTicketTxNotAtomic(ticket, ts) ==
    LET name == String(ticket.ID)
        doc == [title |-> ticket.Title, price |-> ticket.Price, dateCreated |-> ts]
    IN IF Exists(name) THEN [err |-> "AlreadyExists", coll |-> coll]
       ELSE IF ~Exists(counterDocID)
            THEN [err |-> "StoreNotFound", coll |-> (name :> doc) @@ coll]
            ELSE [err |-> "OK", coll |-> (name :> doc) @@ IncrementCounter(coll, 1)]

\* CreateTicket with tx.Set in place of tx.Create: an existing document is
\* overwritten.
CreateTicketTxOverwrite(ticket, ts) ==
    LET name == String(ticket.ID)
        doc == [title |-> ticket.Title, price |-> ticket.Price, dateCreated |-> ts]
    IN IF ~Exists(counterDocID) THEN [err |-> "StoreNotFound", coll |-> coll]
       ELSE [err |-> "OK", coll |-> (name :> doc) @@ IncrementCounter(coll, 1)]

\* CreateTicket that also stamps dateUpdated at creation.
CreateTicketTxStampsUpdated(ticket, ts) ==
    LET name == String(ticket.ID) IN
    IF Exists(name) THEN [err |-> "AlreadyExists", coll |-> coll]
    ELSE IF ~Exists(counterDocID) THEN [err |-> "StoreNotFound", coll |-> coll]
    ELSE [err |-> "OK",
          coll |-> (name :> [title |-> ticket.Title, price |-> ticket.Price,
                             dateCreated |-> ts, dateUpdated |-> ts])
                   @@ IncrementCounter(coll, 1)]

\* CreateTicket that writes the counter with a merging Set: a missing counter
\* document is created by the increment.
CreateTicketTxCreatesCounter(ticket, ts) ==
    LET name == String(ticket.ID)
        cnt == IF Exists(counterDocID) THEN coll
               ELSE (counterDocID :> [totalTickets |-> 0]) @@ coll
    IN IF Exists(name) THEN [err |-> "AlreadyExists", coll |-> coll]
       ELSE [err |-> "OK",
             coll |-> (name :> [title |-> ticket.Title, price |-> ticket.Price,
                                dateCreated |-> ts])
                      @@ IncrementCounter(cnt, 1)]

\* CreateTicket that increments the counter outside the transaction, before
\* the document is created: a create that loses still counts.
CreateTicketTxCountsLoser(ticket, ts) ==
    LET name == String(ticket.ID) IN
    IF ~Exists(counterDocID) THEN [err |-> "StoreNotFound", coll |-> coll]
    ELSE IF Exists(name) THEN [err |-> "AlreadyExists", coll |-> IncrementCounter(coll, 1)]
    ELSE [err |-> "OK",
          coll |-> (name :> [title |-> ticket.Title, price |-> ticket.Price,
                             dateCreated |-> ts])
                   @@ IncrementCounter(coll, 1)]

\* The transaction of CreateTicket: tx.Create (the document must not exist)
\* and the increment of the counter (the counter must exist).
CreateTicketTx(ticket, ts) ==
    LET name == String(ticket.ID) IN
    IF Exists(name) THEN [err |-> "AlreadyExists", coll |-> coll]
    ELSE IF ~Exists(counterDocID) THEN [err |-> "StoreNotFound", coll |-> coll]
    ELSE [err |-> "OK",
          coll |-> (name :> [title |-> ticket.Title, price |-> ticket.Price,
                             dateCreated |-> ts])
                   @@ IncrementCounter(coll, 1)]

\* The transaction of DeleteTicket: tx.Delete carries no precondition, so it
\* commits whether or not the document exists; the counter must exist.
DeleteTicketTx(id) ==
    LET name == String(id) IN
    IF ~Exists(counterDocID) THEN [err |-> "StoreNotFound", coll |-> coll]
    ELSE [err |-> "OK", coll |-> IncrementCounter(Without(coll, name), -1)]

\* UpdateTicket with tx.Set(MergeAll) and no Get: a missing document is
\* created.
UpdateTicketTxUpsert(ticket, ts) ==
    LET name == String(ticket.ID)
        d0 == IF Exists(name) THEN coll[name] ELSE <<>>
        d1 == ("dateUpdated" :> ts) @@ d0
        d2 == IF ticket.Title # NoTitle THEN ("title" :> ticket.Title) @@ d1 ELSE d1
        d3 == IF ticket.Price # 0 THEN ("price" :> ticket.Price) @@ d2 ELSE d2
    IN [err |-> "OK", coll |-> (name :> d3) @@ coll]

\* UpdateTicket that writes title and price whether or not they are supplied.
UpdateTicketTxWritesAll(ticket, ts) ==
    LET name == String(ticket.ID) IN
    IF ~Exists(name) THEN [err |-> "NotFound", coll |-> coll]
    ELSE [err |-> "OK",
          coll |-> [coll EXCEPT ![name] =
                       ("dateUpdated" :> ts) @@ ("title" :> ticket.Title)
                       @@ ("price" :> ticket.Price) @@ @]]

\* UpdateTicket that stamps dateUpdated only when a field is supplied.
UpdateTicketTxStampsOnChange(ticket, ts) ==
    LET name == String(ticket.ID) IN
    IF ~Exists(name) THEN [err |-> "NotFound", coll |-> coll]
    ELSE LET d0 == coll[name]
             d1 == IF ticket.Title # NoTitle \/ ticket.Price # 0
                   THEN ("dateUpdated" :> ts) @@ d0 ELSE d0
             d2 == IF ticket.Title # NoTitle THEN ("title" :> ticket.Title) @@ d1 ELSE d1
             d3 == IF ticket.Price # 0 THEN ("price" :> ticket.Price) @@ d2 ELSE d2
         IN [err |-> "OK", coll |-> [coll EXCEPT ![name] = d3]]

\* The transaction of UpdateTicket: tx.Get, then tx.Update of dateUpdated and
\* of the fields that are not the zero value.
UpdateTicketTx(ticket, ts) ==
    LET name == String(ticket.ID) IN
    IF ~Exists(name) THEN [err |-> "NotFound", coll |-> coll]
    ELSE LET d0 == coll[name]
             d1 == ("dateUpdated" :> ts) @@ d0
             d2 == IF ticket.Title # NoTitle THEN ("title" :> ticket.Title) @@ d1 ELSE d1
             d3 == IF ticket.Price # 0 THEN ("price" :> ticket.Price) @@ d2 ELSE d2
         IN [err |-> "OK", coll |-> [coll EXCEPT ![name] = d3]]

\* readTicket: one Get of the document, converted to the domain type.
readTicket(id) ==
    LET name == String(id) IN
    IF ~Exists(name) THEN [err |-> "NotFound", ticket |-> ZeroTicket]
    ELSE [err |-> "OK", ticket |-> toDomainTicket(docToPersistedTicket(name, coll[name]))]

\* ---- the paged query ------------------------------------------------------
\* The position of a document in the query's order, as a cursor holds it.
Snapshot(name) == [name |-> name, dateCreated |-> coll[name].dateCreated]

\* OrderBy("dateCreated", Desc): a comes before b; documents with the same
\* dateCreated are ordered by name, in the same direction.
ComesBefore(a, b) ==
    \/ a.dateCreated > b.dateCreated
    \/ a.dateCreated = b.dateCreated /\ MustParse(a.name) > MustParse(b.name)

\* Only documents that have the dateCreated field are in the order: the
\* counter document is not.
Ordered(names) ==
    LET RECURSIVE Sorted(_)
        Sorted(S) ==
            IF S = {} THEN <<>>
            ELSE LET first == CHOOSE n \in S :
                                  \A m \in S \ {n} : ComesBefore(Snapshot(n), Snapshot(m))
                 IN <<first>> \o Sorted(S \ {first})
    IN Sorted({n \in names : "dateCreated" \in DOMAIN coll[n]})

Min(a, b) == IF a < b THEN a ELSE b

\* The query without its Limit: every document between the cursors.
DocumentsUnlimited(afterDoc, beforeDoc, limit) ==
    LET InRange(n) ==
            /\ afterDoc = NoSnapshot \/ ComesBefore(afterDoc, Snapshot(n))
            /\ beforeDoc = NoSnapshot \/ ComesBefore(Snapshot(n), beforeDoc)
    IN SelectSeq(Ordered(DOMAIN coll), InRange)

\* The query with StartAt in place of StartAfter: the After cursor's own
\* document is in the range.
DocumentsStartAt(afterDoc, beforeDoc, limit) ==
    LET InRange(n) ==
            /\ afterDoc = NoSnapshot \/ ~ComesBefore(Snapshot(n), afterDoc)
            /\ beforeDoc = NoSnapshot \/ ComesBefore(Snapshot(n), beforeDoc)
        sel == SelectSeq(Ordered(DOMAIN coll), InRange)
    IN SubSeq(sel, 1, Min(limit, Len(sel)))

\* query.StartAfter(afterDoc).EndBefore(beforeDoc).Limit(limit).Documents:
\* the first `limit` documents of the order that lie strictly between the
\* cursors.
Documents(afterDoc, beforeDoc, limit) ==
    LET InRange(n) ==
            /\ afterDoc = NoSnapshot \/ ComesBefore(afterDoc, Snapshot(n))
            /\ beforeDoc = NoSnapshot \/ ComesBefore(Snapshot(n), beforeDoc)
        sel == SelectSeq(Ordered(DOMAIN coll), InRange)
    IN SubSeq(sel, 1, Min(limit, Len(sel)))

\* The conversion loop over the documents of the page.
Page(names) ==
    [i \in 1..Len(names) |-> toDomainTicket(docToPersistedTicket(names[i], coll[names[i]]))]

\* Metadata with the two cursors exchanged.
PageMetadataSwapped(tt, cnt) ==
    [Before |-> IF Len(tt) > 0 THEN tt[Len(tt)].ID ELSE NilUUID,
     After |-> IF Len(tt) > 0 THEN tt[1].ID ELSE NilUUID,
     Total |-> cnt.TotalTickets]

\* Metadata whose Total is the length of the page.
PageMetadataCountsPage(tt, cnt) ==
    [Before |-> IF Len(tt) > 0 THEN tt[1].ID ELSE NilUUID,
     After |-> IF Len(tt) > 0 THEN tt[Len(tt)].ID ELSE NilUUID,
     Total |-> Len(tt)]

\* Metadata of a page and the counter read after it.
PageMetadata(tt, cnt) ==
    [Before |-> IF Len(tt) > 0 THEN tt[1].ID ELSE NilUUID,
     After |-> IF Len(tt) > 0 THEN tt[Len(tt)].ID ELSE NilUUID,
     Total |-> cnt.TotalTickets]

\* ---- operations -----------------------------------------------------------
Idle(c) == calls[c].pc = "idle"

StorerCreateTicket(c, ticket, fault) ==
    /\ Idle(c)
    /\ now < MaxClock
    /\ LET r == RunTransaction(fault, CreateTicketTx(ticket, now + 1)) IN
       /\ coll' = r.coll
       /\ now' = IF r.err = "OK" THEN now + 1 ELSE now
       /\ creates' = IF r.err = "OK" THEN creates + 1 ELSE creates
       /\ fresh' = IF r.err = "OK"
                   THEN (ticket.ID :> [Title |-> ticket.Title, Price |-> ticket.Price]) @@ fresh
                   ELSE fresh
       /\ Return("CreateTicket", ticket.ID, ZeroFilter, fault, r.err, ZeroTicket, <<>>, ZeroMetadata)
    /\ UNCHANGED <<calls, deletes>>

StorerReadTicket(c, id) ==
    /\ Idle(c)
    /\ LET r == readTicket(id) IN
       Return("ReadTicket", id, ZeroFilter, "none", r.err,
              r.ticket, <<>>, ZeroMetadata)
    /\ UNCHANGED <<coll, now, calls, creates, deletes, fresh>>

StorerDeleteTicket(c, id, fault) ==
    /\ Idle(c)
    /\ now < MaxClock
    /\ LET r == RunTransaction(fault, DeleteTicketTx(id)) IN
       /\ coll' = r.coll
       /\ now' = IF r.err = "OK" THEN now + 1 ELSE now
       /\ deletes' = IF r.err = "OK" THEN deletes + 1 ELSE deletes
       /\ fresh' = IF r.err = "OK" THEN [i \in DOMAIN fresh \ {id} |-> fresh[i]] ELSE fresh
       /\ Return("DeleteTicket", id, ZeroFilter, fault, r.err,
                 ZeroTicket, <<>>, ZeroMetadata)
    /\ UNCHANGED <<calls, creates>>

\* UpdateTicket, first part: the transaction.  An error returns at once; a
\* commit leaves the call in flight, before its read of the updated ticket.
StorerUpdateTicket(c, ticket, fault) ==
    /\ Idle(c)
    /\ now < MaxClock
    /\ LET r == RunTransaction(fault, UpdateTicketTx(ticket, now + 1)) IN
       /\ coll' = r.coll
       /\ IF r.err = "OK"
          THEN /\ now' = now + 1
               /\ calls' = [calls EXCEPT ![c] = [IdleCall EXCEPT !.pc = "reread", !.ticket = ticket]]
               /\ fresh' = [i \in DOMAIN fresh \ {ticket.ID} |-> fresh[i]]
               /\ last' = NoResult
          ELSE /\ Return("UpdateTicket", ticket.ID, ZeroFilter, fault, r.err, ZeroTicket,
                         <<>>, ZeroMetadata)
               /\ UNCHANGED <<now, calls, fresh>>
    /\ UNCHANGED <<creates, deletes>>

\* The second part returning the ticket it was given instead of reading.
StorerUpdateTicketReadReturnsInput(c) ==
    /\ calls[c].pc = "reread"
    /\ Return("UpdateTicket", calls[c].ticket.ID, ZeroFilter, "none", "OK", calls[c].ticket,
              <<>>, ZeroMetadata)
    /\ calls' = [calls EXCEPT ![c] = IdleCall]
    /\ UNCHANGED <<coll, now, creates, deletes, fresh>>

\* UpdateTicket, second part: readTicket outside the transaction.
StorerUpdateTicketRead(c) ==
    /\ calls[c].pc = "reread"
    /\ LET r == readTicket(calls[c].ticket.ID) IN
       Return("UpdateTicket", calls[c].ticket.ID, ZeroFilter, "none", r.err, r.ticket,
              <<>>, ZeroMetadata)
    /\ calls' = [calls EXCEPT ![c] = IdleCall]
    /\ UNCHANGED <<coll, now, creates, deletes, fresh>>

\* ReadTickets runs in four steps, one per request to the store.  A listing
\* only reads, so two listings do not affect each other: one is in flight at
\* a time.
InReadTickets(c) == calls[c].pc \in {"before", "query", "counter"}

ReturnReadTickets(c, err, tt, meta) ==
    /\ Return("ReadTickets", NilUUID, calls[c].filter, "none", err, ZeroTicket, tt, meta)
    /\ calls' = [calls EXCEPT ![c] = IdleCall]

\* First step: the Get of the After cursor, when one is given.
StorerReadTickets(c, filter) ==
    /\ Idle(c)
    /\ \A d \in Callers : ~InReadTickets(d)
    /\ LET name == String(filter.After)
           next == IF filter.Before # NilUUID THEN "before" ELSE "query"
       IN IF filter.After # NilUUID /\ ~Exists(name)
          THEN /\ Return("ReadTickets", NilUUID, filter, "none", "NotFound", ZeroTicket,
                         <<>>, ZeroMetadata)
               /\ UNCHANGED calls
          ELSE /\ calls' = [calls EXCEPT ![c] =
                              [IdleCall EXCEPT !.pc = next, !.filter = filter,
                                  !.afterDoc = IF filter.After # NilUUID
                                               THEN Snapshot(name) ELSE NoSnapshot]]
               /\ last' = NoResult
    /\ UNCHANGED <<coll, now, creates, deletes, fresh>>

\* Second step: the Get of the Before cursor.
StorerReadTicketsBefore(c) ==
    /\ calls[c].pc = "before"
    /\ LET name == String(calls[c].filter.Before) IN
       IF ~Exists(name)
       THEN ReturnReadTickets(c, "NotFound", <<>>, ZeroMetadata)
       ELSE /\ calls' = [calls EXCEPT ![c].pc = "query", ![c].beforeDoc = Snapshot(name)]
            /\ UNCHANGED last
    /\ UNCHANGED <<coll, now, creates, deletes, fresh>>

\* Third step: the query and the conversion of its documents.
StorerReadTicketsQuery(c) ==
    /\ calls[c].pc = "query"
    /\ calls' = [calls EXCEPT ![c].pc = "counter",
                              ![c].tt = Page(Documents(calls[c].afterDoc, calls[c].beforeDoc,
                                                       calls[c].filter.Limit))]
    /\ UNCHANGED <<coll, now, last, creates, deletes, fresh>>

\* The fourth step running the query again, next to its read of the counter.
StorerReadTicketsCounterQueriesAgain(c) ==
    /\ calls[c].pc = "counter"
    /\ LET tt == Page(Documents(calls[c].afterDoc, calls[c].beforeDoc, calls[c].filter.Limit))
       IN IF ~Exists(counterDocID)
          THEN ReturnReadTickets(c, "CounterNotFound", <<>>, ZeroMetadata)
          ELSE ReturnReadTickets(c, "OK", tt,
                   PageMetadata(tt, docToPersistedCounter(coll[counterDocID])))
    /\ UNCHANGED <<coll, now, creates, deletes, fresh>>

\* The fourth step with a missing counter document read as a total of 0.
StorerReadTicketsCounterDefaultsTotal(c) ==
    /\ calls[c].pc = "counter"
    /\ ReturnReadTickets(c, "OK", calls[c].tt,
           PageMetadata(calls[c].tt,
               IF Exists(counterDocID) THEN docToPersistedCounter(coll[counterDocID])
               ELSE [TotalTickets |-> 0]))
    /\ UNCHANGED <<coll, now, creates, deletes, fresh>>

\* The fourth step answering an empty page with the cursor it was given as
\* Metadata.After.
StorerReadTicketsCounterEchoesCursor(c) ==
    /\ calls[c].pc = "counter"
    /\ IF ~Exists(counterDocID)
       THEN ReturnReadTickets(c, "CounterNotFound", <<>>, ZeroMetadata)
       ELSE ReturnReadTickets(c, "OK", calls[c].tt,
                IF calls[c].tt = <<>>
                THEN [Before |-> NilUUID, After |-> calls[c].filter.After,
                      Total |-> docToPersistedCounter(coll[counterDocID]).TotalTickets]
                ELSE PageMetadata(calls[c].tt, docToPersistedCounter(coll[counterDocID])))
    /\ UNCHANGED <<coll, now, creates, deletes, fresh>>

\* Fourth step: the Get of the counter document, and the metadata.
StorerReadTicketsCounter(c) ==
    /\ calls[c].pc = "counter"
    /\ IF ~Exists(counterDocID)
       THEN ReturnReadTickets(c, "CounterNotFound", <<>>, ZeroMetadata)
       ELSE ReturnReadTickets(c, "OK", calls[c].tt,
                PageMetadata(calls[c].tt, docToPersistedCounter(coll[counterDocID])))
    /\ UNCHANGED <<coll, now, creates, deletes, fresh>>

\* ---- the operations called directly on the TicketService ------------------
\* No HTTP request is involved and no traversal advances.
CreateTicket(c, ticket, fault) ==
    StorerCreateTicket(c, ticket, fault) /\ UNCHANGED <<trav, resp, vld>>
ReadTicket(c, id) ==
    StorerReadTicket(c, id) /\ UNCHANGED <<trav, resp, vld>>
DeleteTicket(c, id, fault) ==
    StorerDeleteTicket(c, id, fault) /\ UNCHANGED <<trav, resp, vld>>
UpdateTicket(c, ticket, fault) ==
    StorerUpdateTicket(c, ticket, fault) /\ UNCHANGED <<trav, resp, vld>>
UpdateTicketRead(c) ==
    StorerUpdateTicketRead(c) /\ UNCHANGED <<trav, resp, vld>>
ReadTickets(c, filter) ==
    StorerReadTickets(c, filter) /\ UNCHANGED <<trav, resp, vld>>
ReadTicketsBefore(c) ==
    StorerReadTicketsBefore(c) /\ UNCHANGED <<trav, resp, vld>>
ReadTicketsQuery(c) ==
    StorerReadTicketsQuery(c) /\ UNCHANGED <<trav, resp, vld>>
ReadTicketsCounter(c) ==
    StorerReadTicketsCounter(c) /\ UNCHANGED <<trav, resp, vld>>

\* ---- the HTTP handlers -------------------------------------------------------
\* A title of 51 characters.
LongTitle == [i \in 1..51 |-> 97]
PriceCap == 100000

\* utf8.RuneLen: the number of bytes of a character in a Go string.
RuneLen(r) == IF r < 128 THEN 1 ELSE IF r < 2048 THEN 2 ELSE IF r < 65536 THEN 3 ELSE 4

\* The builtin len of a Go string: its number of bytes.
RECURSIVE len(_)
len(s) == IF s = <<>> THEN 0 ELSE RuneLen(s[1]) + len(Tail(s))

\* ValidateTitle without its check that the title is not empty.
ValidateTitleAllowsEmpty(title) == len(title) <= 50

\* Ticket.ValidateTitle and Ticket.ValidatPrice: TRUE when no error is added
\* to the validator.
ValidateTitle(title) == title # NoTitle /\ len(title) <= 50
ValidatPrice(price) == price > 0 /\ price <= PriceCap
validateReadTickets(input) == input.Limit > 0 /\ input.Limit <= 50

\* Ticket.ValidateTitle called with a new validator, whose Valid() is kept.
TicketValidateTitle(title) ==
    /\ vld' = [checked |-> TRUE, title |-> title, valid |-> ValidateTitle(title)]
    /\ UNCHANGED <<coll, now, calls, last, creates, deletes, fresh, trav, resp>>

\* The request a handler has decoded; title and price are pointers: <<>> is
\* nil, <<v>> points to v.
Request(handler, id, title, price, filter) ==
    [handler |-> handler, id |-> id, title |-> title, price |-> price, filter |-> filter,
     err |-> "OK", status |-> 0]

\* The status of the response a handler writes for the error of its store
\* call: only three handlers tell ErrTicketNotFound from the other errors.
Status(handler, err) ==
    IF err = "OK" THEN IF handler = "handleCreateTicket" THEN 201 ELSE 200
    ELSE IF err = "NotFound" /\ handler \in {"handleReadTicket", "handleUpdateTicket",
                                              "handleDeleteTicket"}
         THEN 404
         ELSE 500

\* web.FailedValidationResponse, and return: the store is not called.
FailedValidationResponse(req) ==
    /\ resp' = [req EXCEPT !.err = "Validation", !.status = 422]
    /\ UNCHANGED <<coll, now, calls, last, creates, deletes, fresh>>

\* The response is written when the store call has returned.
Respond(req) ==
    resp' = IF last'.op # "none" /\ last'.seq # last.seq
            THEN [req EXCEPT !.err = last'.err, !.status = Status(req.handler, last'.err)]
            ELSE req

handleCreateTicket(c, title, price, fault) ==
    /\ Idle(c)
    /\ \E id \in IDs :
          /\ ~Exists(String(id))
          /\ LET tck == [ZeroTicket EXCEPT !.ID = id, !.Title = title, !.Price = price]
                 req == Request("handleCreateTicket", NilUUID, <<title>>, <<price>>, ZeroFilter)
             IN IF ~(ValidateTitle(tck.Title) /\ ValidatPrice(tck.Price))
                THEN FailedValidationResponse(req)
                ELSE StorerCreateTicket(c, tck, fault) /\ Respond(req)
    /\ UNCHANGED <<trav, vld>>

handleReadTicket(c, id) ==
    /\ StorerReadTicket(c, id)
    /\ Respond(Request("handleReadTicket", id, <<>>, <<>>, ZeroFilter))
    /\ UNCHANGED <<trav, vld>>

\* Only the fields the request supplies are copied into the ticket and
\* validated.
handleUpdateTicket(c, id, title, price, fault) ==
    /\ Idle(c)
    /\ LET tck == [ZeroTicket EXCEPT !.ID = id,
                                     !.Title = IF title # <<>> THEN title[1] ELSE NoTitle,
                                     !.Price = IF price # <<>> THEN price[1] ELSE 0]
           valid == /\ title # <<>> => ValidateTitle(tck.Title)
                    /\ price # <<>> => ValidatPrice(tck.Price)
           req == Request("handleUpdateTicket", id, title, price, ZeroFilter)
       IN IF ~valid
          THEN FailedValidationResponse(req)
          ELSE StorerUpdateTicket(c, tck, fault) /\ Respond(req)
    /\ UNCHANGED <<trav, vld>>

handleUpdateTicketRead(c) ==
    /\ StorerUpdateTicketRead(c)
    /\ Respond(resp)
    /\ UNCHANGED <<trav, vld>>

handleDeleteTicket(c, id, fault) ==
    /\ StorerDeleteTicket(c, id, fault)
    /\ Respond(Request("handleDeleteTicket", id, <<>>, <<>>, ZeroFilter))
    /\ UNCHANGED <<trav, vld>>

handleReadTickets(c, input) ==
    /\ Idle(c)
    /\ LET req == Request("handleReadTickets", NilUUID, <<>>, <<>>, input) IN
       IF ~validateReadTickets(input)
       THEN FailedValidationResponse(req)
       ELSE StorerReadTickets(c, input) /\ Respond(req)
    /\ UNCHANGED <<trav, vld>>

handleReadTicketsQuery(c) ==
    StorerReadTicketsQuery(c) /\ Respond(resp) /\ UNCHANGED <<trav, vld>>

handleReadTicketsCounter(c) ==
    StorerReadTicketsCounter(c) /\ Respond(resp) /\ UNCHANGED <<trav, vld>>

\* ---- a client traversing the listing forward -------------------------------
\* The client asks for the first page with a limit, then passes each page's
\* Metadata.After as Filter.After with the same limit, and stops at the first
\* empty page; it may then pass the Metadata.After of that empty page as
\* Filter.After once more.  Tickets are created and deleted only before a
\* traversal.
CreateBeforeTraversal(c, ticket) ==
    trav.state = "off" /\ CreateTicket(c, ticket, "none")

DeleteBeforeTraversal(c, id) ==
    trav.state = "off" /\ DeleteTicket(c, id, "none")

TraverseStart(c, limit) ==
    /\ trav.state \in {"off", "done", "again"}
    /\ StorerReadTickets(c, [Before |-> NilUUID, After |-> NilUUID, Limit |-> limit])
    /\ trav' = [state |-> "on", limit |-> limit, acc |-> <<>>]
    /\ UNCHANGED <<resp, vld>>

TraverseNext(c) ==
    /\ Idle(c)
    /\ trav.state = "on"
    /\ last.op = "ReadTickets" /\ last.err = "OK"
    /\ Len(trav.acc) <= Cardinality(PageIDs)
    /\ IF last.tt = <<>>
       THEN /\ trav' = [trav EXCEPT !.state = "done"]
            /\ UNCHANGED <<coll, now, calls, last, creates, deletes, fresh>>
       ELSE /\ StorerReadTickets(c, [Before |-> NilUUID, After |-> last.meta.After,
                                     Limit |-> trav.limit])
            /\ trav' = [trav EXCEPT !.acc = @ \o last.tt]
    /\ UNCHANGED <<resp, vld>>

\* The traversal has ended on an empty page; the client passes the
\* Metadata.After of that page as Filter.After.
TraverseAgain(c) ==
    /\ trav.state = "done"
    /\ last.op = "ReadTickets" /\ last.err = "OK" /\ last.tt = <<>>
    /\ StorerReadTickets(c, [Before |-> NilUUID, After |-> last.meta.After,
                             Limit |-> trav.limit])
    /\ trav' = [trav EXCEPT !.state = "again"]
    /\ UNCHANGED <<resp, vld>>

\* ---- specification --------------------------------------------------------
\* The collection starts without tickets; the counter document is provisioned
\* with totalTickets = 0, or is missing.
Init ==
    /\ coll \in {(counterDocID :> [totalTickets |-> 0]), <<>>}
    /\ now = 0
    /\ calls = [c \in Callers |-> IdleCall]
    /\ last = NoResult
    /\ creates = 0
    /\ deletes = 0
    /\ fresh = <<>>
    /\ trav = NoTraversal
    /\ resp = NoResponse
    /\ vld = NoValidation

CreateInputs == {[ZeroTicket EXCEPT !.ID = i, !.Title = t, !.Price = p] :
                    i \in IDs, t \in Titles, p \in Prices}
UpdateInputs == {[ZeroTicket EXCEPT !.ID = i, !.Title = t, !.Price = p] :
                    i \in IDs, t \in Titles \cup {NoTitle}, p \in Prices \cup {0}}
Filters == [Before : PageIDs \cup {NilUUID}, After : PageIDs \cup {NilUUID}, Limit : 1..MaxLimit]
FirstPages == {f \in Filters : f.Before = NilUUID /\ f.After = NilUUID}
PagingInputs == {[ZeroTicket EXCEPT !.ID = i, !.Title = TitleA, !.Price = 1] : i \in PageIDs}

\* One caller at a time uses every operation with every ticket input and
\* with aborted transactions, and lists the first page (no cursor).
Next ==
    \E c \in {"c1"} :
        \/ \E t \in CreateInputs, f \in Faults : CreateTicket(c, t, f)
        \/ \E i \in IDs : ReadTicket(c, i)
        \/ \E t \in UpdateInputs, f \in Faults : UpdateTicket(c, t, f)
        \/ UpdateTicketRead(c)
        \/ \E i \in IDs, f \in Faults : DeleteTicket(c, i, f)
        \/ \E f \in FirstPages : ReadTickets(c, f)
        \/ ReadTicketsQuery(c)
        \/ ReadTicketsCounter(c)

Spec == Init /\ [][Next]_vars

\* One caller at a time creates and deletes tickets (one title, one price,
\* no abort) and lists pages with every filter.
PagingNext ==
    \E c \in {"c1"} :
        \/ \E t \in PagingInputs : CreateTicket(c, t, "none")
        \/ \E i \in PageIDs : DeleteTicket(c, i, "none")
        \/ \E f \in Filters : ReadTickets(c, f)
        \/ ReadTicketsBefore(c)
        \/ ReadTicketsQuery(c)
        \/ ReadTicketsCounter(c)

SpecPaging == Init /\ [][PagingNext]_vars

\* Two callers run concurrently: either one creates, deletes, updates and
\* lists the first page ("c1" creates with title "a" and price 1, "c2" with
\* title "c" and price 3; "c1" updates the title to "b", "c2" updates the
\* title to "a" or the price to 2; no abort).
ConcInputs(c) ==
    IF c = "c1"
    THEN {[ZeroTicket EXCEPT !.ID = i, !.Title = TitleA, !.Price = 1] : i \in IDs}
    ELSE {[ZeroTicket EXCEPT !.ID = i, !.Title = TitleC, !.Price = 3] : i \in IDs}
ConcUpdates(c) ==
    IF c = "c1"
    THEN {[ZeroTicket EXCEPT !.ID = i, !.Title = TitleB] : i \in IDs}
    ELSE {[ZeroTicket EXCEPT !.ID = i, !.Title = TitleA] : i \in IDs}
         \cup {[ZeroTicket EXCEPT !.ID = i, !.Price = 2] : i \in IDs}

ConcNext ==
    \E c \in Callers :
        \/ \E t \in ConcInputs(c) : CreateTicket(c, t, "none")
        \/ \E i \in IDs : DeleteTicket(c, i, "none")
        \/ \E t \in ConcUpdates(c) : UpdateTicket(c, t, "none")
        \/ UpdateTicketRead(c)
        \/ \E f \in FirstPages : ReadTickets(c, f)
        \/ ReadTicketsQuery(c)
        \/ ReadTicketsCounter(c)

SpecConc == Init /\ [][ConcNext]_vars

\* One client at a time sends requests: creations with a valid, an empty and
\* a too long title, updates with valid, empty, zero and absent fields,
\* deletions, listings with a valid and an invalid limit, without cursor and
\* with the ticket 1 as After cursor (no abort; a missing counter document
\* makes store calls fail).
HTTPTitles == {TitleA, NoTitle, LongTitle}
HTTPPrices == {1}
HTTPUpdateTitles == {<<>>, <<NoTitle>>, <<TitleB>>}
HTTPUpdatePrices == {<<>>, <<0>>, <<2>>}
\* The update requests: at most one field is empty or zero, and a request
\* with an empty or zero field supplies no other field.
HTTPUpdates == {u \in [title : HTTPUpdateTitles, price : HTTPUpdatePrices] :
                   (u.title = <<NoTitle>> => u.price = <<>>)
                   /\ (u.price = <<0>> => u.title = <<>>)}
HTTPFilters == [Before : {NilUUID}, After : {NilUUID, 1}, Limit : {0, MaxLimit}]

HTTPNext ==
    \E c \in {"c1"} :
        \/ \E t \in HTTPTitles, p \in HTTPPrices : handleCreateTicket(c, t, p, "none")
        \/ \E i \in IDs : handleReadTicket(c, i)
        \/ \E i \in IDs, u \in HTTPUpdates :
               handleUpdateTicket(c, i, u.title, u.price, "none")
        \/ handleUpdateTicketRead(c)
        \/ \E i \in IDs : handleDeleteTicket(c, i, "none")
        \/ \E f \in HTTPFilters : handleReadTickets(c, f)
        \/ handleReadTicketsQuery(c)
        \/ handleReadTicketsCounter(c)

SpecHTTP == Init /\ [][HTTPNext]_vars

\* Titles are validated: titles of 0 to MaxTitleChars characters, made of one
\* character of 1, 2, 3 or 4 bytes (U+0061, U+00E9, U+20AC, U+1F600).
MaxTitleChars == 51
Runes == {97, 233, 8364, 128512}
TestTitles == {[i \in 1..n |-> r] : n \in 0..MaxTitleChars, r \in Runes}

ValidateNext == \E t \in TestTitles : TicketValidateTitle(t)

SpecValidate == Init /\ [][ValidateNext]_vars

\* One caller creates and deletes tickets, then traverses the listing.
TraversalNext ==
    \E c \in {"c1"} :
        \/ \E t \in PagingInputs : CreateBeforeTraversal(c, t)
        \/ \E i \in PageIDs : DeleteBeforeTraversal(c, i)
        \/ \E n \in 1..MaxLimit : TraverseStart(c, n)
        \/ TraverseNext(c)
        \/ TraverseAgain(c)
        \/ ReadTicketsQuery(c)
        \/ ReadTicketsCounter(c)

SpecTraversal == Init /\ [][TraversalNext]_vars

\* ---- properties -----------------------------------------------------------
TicketNames == DOMAIN coll \ {counterDocID}
TotalTickets == coll[counterDocID].totalTickets

\* A call of `op` returns in this step.
Returned(op) == last'.seq # last.seq /\ last'.op = op
\* UpdateTicket returns from its transaction (no call leaves flight).
ReturnedFromUpdateTx == Returned("UpdateTicket") /\ calls' = calls
\* The transaction of caller c's UpdateTicket commits in this step.
Committed(c) == calls[c].pc = "idle" /\ calls'[c].pc = "reread"
\* Every document but `name` is as before the step.
OthersUnchanged(name) ==
    /\ DOMAIN coll' \ {name} = DOMAIN coll \ {name}
    /\ \A n \in DOMAIN coll \ {name} : coll'[n] = coll[n]

\* C1: in every reachable state with a counter, TotalTickets equals the
\* number of ticket documents persisted.
C1_TotalEqualsTicketCount ==
    Exists(counterDocID) => TotalTickets = Cardinality(TicketNames)

\* C2: CreateTicket is all-or-nothing: the call that returns nil created the
\* ticket document and incremented TotalTickets by 1, and the call that
\* returns an error (a missing counter, an abort) changed nothing.
C2_CreateAllOrNothing ==
    [][Returned("CreateTicket") =>
        LET name == String(last'.id) IN
        \/ /\ last'.err = "OK"
           /\ last'.fault = "none"
           /\ ~Exists(name)
           /\ name \in DOMAIN coll'
           /\ DOMAIN coll' = DOMAIN coll \cup {name}
           /\ \A n \in TicketNames : coll'[n] = coll[n]
           /\ coll'[counterDocID].totalTickets = TotalTickets + 1
        \/ /\ last'.err # "OK"
           /\ coll' = coll]_vars

\* C2 witness: a create whose increment failed on a missing counter, and no
\* ticket document exists.
C2_Witness ==
    /\ last.op = "CreateTicket"
    /\ last.err = "StoreNotFound"
    /\ ~Exists(counterDocID)
    /\ ~Exists(String(last.id))

\* C3: DeleteTicket is all-or-nothing: the call that returns an error left
\* every document and TotalTickets as they were, and the call that returns
\* nil left no document under the ID and decremented TotalTickets by 1.
C3_DeleteAllOrNothing ==
    [][Returned("DeleteTicket") =>
        LET name == String(last'.id) IN
        \/ /\ last'.err # "OK"
           /\ coll' = coll
        \/ /\ last'.err = "OK"
           /\ last'.fault = "none"
           /\ name \notin DOMAIN coll'
           /\ DOMAIN coll' = DOMAIN coll \ {name}
           /\ \A n \in TicketNames \ {name} : coll'[n] = coll[n]
           /\ coll'[counterDocID].totalTickets = TotalTickets - 1]_vars

\* C3 witness: a delete of an existing ticket was aborted, and the ticket is
\* still there with the counter counting it.
C3_Witness ==
    /\ last.op = "DeleteTicket"
    /\ last.fault = "Canceled"
    /\ last.err = "Canceled"
    /\ Exists(String(last.id))
    /\ TotalTickets = Cardinality(TicketNames)

\* C4: with the counter provisioned, DeleteTicket of an ID that has no
\* document fails with NotFound and leaves TotalTickets unchanged.
C4_DeleteMissingIsNotFound ==
    [][/\ Returned("DeleteTicket")
       /\ last'.fault = "none"
       /\ Exists(counterDocID)
       /\ ~Exists(String(last'.id))
       => /\ last'.err = "NotFound"
          /\ coll'[counterDocID].totalTickets = TotalTickets]_vars

\* C5: CreateTicket with an ID that already has a document fails, with
\* AlreadyExists unless the transaction was aborted, and leaves the document
\* and TotalTickets unchanged.
C5_CreateExistingFails ==
    [][Returned("CreateTicket") /\ Exists(String(last'.id)) =>
        /\ last'.err # "OK"
        /\ last'.fault = "none" => last'.err = "AlreadyExists"
        /\ coll' = coll]_vars

\* C5 witness: a create on an existing ID returned AlreadyExists.
C5_Witness ==
    /\ last.op = "CreateTicket"
    /\ last.err = "AlreadyExists"
    /\ Exists(String(last.id))
    /\ TotalTickets = 1

\* C6: UpdateTicket on an ID with no document fails from its transaction,
\* with NotFound unless the transaction was aborted, and changes no
\* document; no transaction of UpdateTicket commits on a missing document.
C6_UpdateMissingIsNotFound ==
    [][/\ ReturnedFromUpdateTx /\ ~Exists(String(last'.id)) =>
            /\ last'.err # "OK"
            /\ last'.fault = "none" => last'.err = "NotFound"
            /\ coll' = coll
       /\ \A c \in Callers : Committed(c) => Exists(String(calls'[c].ticket.ID))
       /\ DOMAIN coll' # DOMAIN coll => ~Returned("UpdateTicket") /\ \A c \in Callers : ~Committed(c)]_vars

\* C6 witness: an update of a missing ID returned NotFound next to an
\* existing ticket.
C6_Witness ==
    /\ last.op = "UpdateTicket"
    /\ last.fault = "none"
    /\ last.err = "NotFound"
    /\ ~Exists(String(last.id))
    /\ TicketNames # {}

\* C7: the Total that ReadTickets returns is the number of creates that
\* returned nil minus the number of deletes that returned nil.
C7_TotalIsCreatesMinusDeletes ==
    last.op = "ReadTickets" /\ last.err = "OK" => last.meta.Total = creates - deletes

\* C7 witness: a listing after two creates and one delete returned Total 1.
C7_Witness ==
    /\ last.op = "ReadTickets"
    /\ last.err = "OK"
    /\ creates = 2
    /\ deletes = 1
    /\ last.meta.Total = 1

\* C8: the transaction of UpdateTicket writes the supplied (non-zero) title
\* and price and leaves a field that is not supplied, dateCreated, the set of
\* documents, every other ticket and the counter unchanged.
C8_UpdateWritesOnlySupplied ==
    [][\A c \in Callers : Committed(c) =>
        LET t == calls'[c].ticket
            name == String(t.ID)
        IN /\ DOMAIN coll' = DOMAIN coll
           /\ OthersUnchanged(name)
           /\ coll'[name].title = IF t.Title # NoTitle THEN t.Title ELSE coll[name].title
           /\ coll'[name].price = IF t.Price # 0 THEN t.Price ELSE coll[name].price
           /\ coll'[name].dateCreated = coll[name].dateCreated
           /\ toDomainTicket(docToPersistedTicket(name, coll'[name])).ID = t.ID]_vars

\* C8 witness: an update that supplied only the title has committed, and the
\* price is still the other ticket value the create stored.
C8_Witness ==
    \E c \in Callers :
        /\ calls[c].pc = "reread"
        /\ calls[c].ticket.Title = TitleB
        /\ calls[c].ticket.Price = 0
        /\ coll[String(calls[c].ticket.ID)].title = TitleB
        /\ coll[String(calls[c].ticket.ID)].price = 1

\* C9: every transaction of UpdateTicket that commits sets dateUpdated to
\* the commit timestamp, which is later than the dateUpdated and the
\* dateCreated the document had.
C9_DateUpdatedIncreases ==
    [][\A c \in Callers : Committed(c) =>
        LET name == String(calls'[c].ticket.ID) IN
        /\ "dateUpdated" \in DOMAIN coll'[name]
        /\ coll'[name].dateUpdated = now'
        /\ coll'[name].dateUpdated > Field(coll[name], "dateUpdated", 0)
        /\ coll'[name].dateUpdated > coll[name].dateCreated]_vars

\* C9 witness: the only ticket ever created was updated twice, the second
\* time with no field supplied, and carries the third timestamp.
C9_Witness ==
    \E c \in Callers :
        /\ calls[c].pc = "reread"
        /\ calls[c].ticket.Title = NoTitle
        /\ calls[c].ticket.Price = 0
        /\ creates = 1
        /\ deletes = 0
        /\ coll[String(calls[c].ticket.ID)].dateCreated = 1
        /\ coll[String(calls[c].ticket.ID)].dateUpdated = 3

\* C10: ReadTicket of a ticket that was created and neither updated nor
\* deleted since returns the ID, title and price given to CreateTicket, a
\* DateCreated that is set and a zero DateUpdated.
C10_CreateReadRoundTrip ==
    [][Returned("ReadTicket") /\ last'.id \in DOMAIN fresh =>
        /\ last'.err = "OK"
        /\ last'.out.ID = last'.id
        /\ last'.out.Title = fresh[last'.id].Title
        /\ last'.out.Price = fresh[last'.id].Price
        /\ last'.out.DateCreated > 0
        /\ last'.out.DateUpdated = 0]_vars

\* C10 witness: ReadTicket returned a ticket created with title b and
\* price 2 and not touched since.
C10_Witness ==
    /\ last.op = "ReadTicket"
    /\ last.err = "OK"
    /\ last.id \in DOMAIN fresh
    /\ fresh[last.id] = [Title |-> TitleB, Price |-> 2]
    /\ last.out.Title = TitleB
    /\ last.out.Price = 2

\* C11: a forward traversal (first page, then each page's Metadata.After as
\* Filter.After with the same Limit, until a page is empty) over a collection
\* that is not mutated meanwhile: the pages concatenated are at every moment
\* a prefix of the tickets in DateCreated-descending order, and at the end
\* they are all the tickets, each exactly once.
AllTickets == Page(Ordered(DOMAIN coll))
C11_ForwardTraversalComplete ==
    /\ trav.state \in {"on", "done"} =>
           /\ Len(trav.acc) <= Len(AllTickets)
           /\ trav.acc = SubSeq(AllTickets, 1, Len(trav.acc))
    /\ trav.state = "done" => trav.acc = AllTickets
\* a traversal of three tickets with Limit 2 has ended: two non-empty pages
C11_Witness ==
    /\ trav.state = "done"
    /\ trav.limit = 2
    /\ Len(trav.acc) = 3

\* A ReadTickets call has returned a page.
PageReturned == last.op = "ReadTickets" /\ last.err = "OK"
\* Exactly three tickets were created and none deleted: C, B, A from the
\* newest to the oldest.
ThreeCreated == creates = 3 /\ deletes = 0 /\ Len(AllTickets) = 3

\* C12: Metadata.Before is the ID of the first ticket of a non-empty page and
\* Metadata.After the ID of its last ticket.  With A, B, C created in that
\* order, ReadTickets({Limit: 2}) returns [C, B] with Before = C.ID and
\* After = B.ID, and ReadTickets({After: B.ID, Limit: 2}) returns [A] with
\* Total = 3.
C12_MetadataCursors ==
    PageReturned =>
        /\ Len(last.tt) > 0 =>
               /\ last.meta.Before = last.tt[1].ID
               /\ last.meta.After = last.tt[Len(last.tt)].ID
        /\ ThreeCreated =>
               LET C == AllTickets[1]
                   B == AllTickets[2]
                   A == AllTickets[3]
               IN /\ last.filter = [Before |-> NilUUID, After |-> NilUUID, Limit |-> 2] =>
                         /\ last.tt = <<C, B>>
                         /\ last.meta.Before = C.ID
                         /\ last.meta.After = B.ID
                  /\ last.filter = [Before |-> NilUUID, After |-> B.ID, Limit |-> 2] =>
                         /\ last.tt = <<A>>
                         /\ last.meta.Total = 3
\* the second call of the example has returned
C12_Witness ==
    /\ PageReturned
    /\ ThreeCreated
    /\ last.filter = [Before |-> NilUUID, After |-> AllTickets[2].ID, Limit |-> 2]
    /\ last.tt = <<AllTickets[3]>>
    /\ last.meta = [Before |-> AllTickets[3].ID, After |-> AllTickets[3].ID, Total |-> 3]

\* C13: a call with Filter.Before = the first ticket of a page and Limit n
\* returns the page that immediately precedes that ticket in the
\* DateCreated-descending order: the n tickets nearest to the cursor on its
\* newer side (all of them when they are fewer than n).
C13_BackwardPage ==
    (PageReturned /\ last.filter.Before # NilUUID /\ last.filter.After = NilUUID) =>
        LET pos == CHOOSE i \in 1..Len(AllTickets) : AllTickets[i].ID = last.filter.Before
            newer == SubSeq(AllTickets, 1, pos - 1)
            n == last.filter.Limit
        IN last.tt = SubSeq(newer, IF Len(newer) > n THEN Len(newer) - n + 1 ELSE 1, Len(newer))

\* The position of a ticket in the DateCreated-descending order.
Pos(id) == CHOOSE j \in 1..Len(AllTickets) : AllTickets[j].ID = id

\* C14: a returned page is sorted by DateCreated descending, has at most
\* filter.Limit tickets, holds only tickets that are persisted and lie
\* strictly after the After cursor's ticket and strictly before the Before
\* cursor's ticket, holds no cursor ticket and never the counter document.
C14_PageWithinCursors ==
    PageReturned =>
        LET tt == last.tt
            f == last.filter
        IN /\ \A i \in 1..(Len(tt) - 1) : tt[i].DateCreated >= tt[i + 1].DateCreated
           /\ Len(tt) <= f.Limit
           /\ \A i \in 1..Len(tt) :
                  /\ String(tt[i].ID) \in TicketNames
                  /\ String(tt[i].ID) # counterDocID
                  /\ tt[i] = AllTickets[Pos(tt[i].ID)]
                  /\ tt[i].ID \notin {f.After, f.Before}
                  /\ f.After # NilUUID => Pos(tt[i].ID) > Pos(f.After)
                  /\ f.Before # NilUUID => Pos(tt[i].ID) < Pos(f.Before)
\* a page between two cursors, cut by the limit, has been returned: of C, B,
\* A, the call with After = C.ID, Before = A.ID returns [B]
C14_Witness ==
    /\ PageReturned
    /\ Len(AllTickets) = 3
    /\ last.filter = [Before |-> AllTickets[3].ID, After |-> AllTickets[1].ID, Limit |-> 1]
    /\ last.tt = <<AllTickets[2]>>

\* A cursor of the filter names no document.
CursorMissing(f) ==
    \/ f.After # NilUUID /\ ~Exists(String(f.After))
    \/ f.Before # NilUUID /\ ~Exists(String(f.Before))

\* C15 as stated: the last ReadTickets call failed with NotFound if a cursor
\* of its filter does not resolve, and with CounterNotFound if the counter
\* document is missing; a failed call returned no ticket and empty metadata.
C15_ReadTicketsErrorsAsStated ==
    last.op = "ReadTickets" =>
        /\ CursorMissing(last.filter) => last.err = "NotFound"
        /\ ~Exists(counterDocID) => last.err = "CounterNotFound"
        /\ last.err # "OK" => last.tt = <<>> /\ last.meta = ZeroMetadata

\* C15: no step of ReadTickets modifies a document.  The call fails with
\* NotFound when a cursor of its filter does not resolve (whether or not the
\* counter document exists: the cursors are resolved first), with
\* CounterNotFound when every supplied cursor resolves and the counter
\* document is missing, and succeeds otherwise; a failed call returns no
\* ticket and empty metadata.
C15_ReadTicketsErrors ==
    [][(calls' # calls \/ Returned("ReadTickets")) =>
          /\ coll' = coll /\ now' = now
          /\ Returned("ReadTickets") =>
                 /\ last'.err = IF CursorMissing(last'.filter) THEN "NotFound"
                                ELSE IF ~Exists(counterDocID) THEN "CounterNotFound"
                                ELSE "OK"
                 /\ last'.err # "OK" => last'.tt = <<>> /\ last'.meta = ZeroMetadata]_vars
\* both failures have a case: with the counter document missing, a call
\* without cursor returned CounterNotFound
C15_Witness ==
    /\ last.op = "ReadTickets"
    /\ last.err = "CounterNotFound"
    /\ last.filter.After = NilUUID /\ last.filter.Before = NilUUID
    /\ last.tt = <<>> /\ last.meta = ZeroMetadata

\* C16: ReadTickets queries the page in one step and reads the counter in a
\* later step.  The query step fixes the page from the collection as it is
\* then and writes nothing; the return step returns that page unchanged
\* together with the counter as it is at the return, so a create or delete
\* committed in between shows in Total and not in the page.
C16_PageThenCounter ==
    [][\A c \in Callers :
          /\ (calls[c].pc = "query" /\ calls'[c].pc = "counter") =>
                 /\ calls'[c].tt = Page(Documents(calls[c].afterDoc, calls[c].beforeDoc,
                                                  calls[c].filter.Limit))
                 /\ coll' = coll
                 /\ ~Returned("ReadTickets")
          /\ (calls[c].pc = "counter" /\ calls'[c].pc = "idle" /\ last'.err = "OK") =>
                 /\ Returned("ReadTickets")
                 /\ last'.tt = calls[c].tt
                 /\ last'.meta.Total = TotalTickets
                 /\ coll' = coll]_vars
\* only creates have committed, the returned page is not cut by the limit,
\* and Total counts one ticket more than the page holds: a create committed
\* between the query and the read of the counter
C16_Witness ==
    /\ PageReturned
    /\ deletes = 0
    /\ Len(last.tt) < last.filter.Limit
    /\ last.meta.Total = Len(last.tt) + 1
    /\ last.meta.Total = creates

\* C17: the transaction of UpdateTicket returns nothing on commit; the call
\* returns from a later step, with the ticket as stored at that step (or
\* NotFound when it is no longer stored), whatever this caller wrote.
C17_UpdateReturnsLaterRead ==
    [][\A c \in Callers :
          /\ Committed(c) => ~Returned("UpdateTicket")
          /\ (calls[c].pc = "reread" /\ calls'[c].pc = "idle") =>
                 LET name == String(calls[c].ticket.ID) IN
                 /\ Returned("UpdateTicket")
                 /\ coll' = coll
                 /\ IF Exists(name)
                    THEN /\ last'.err = "OK"
                         /\ last'.out = toDomainTicket(docToPersistedTicket(name, coll[name]))
                    ELSE last'.err = "NotFound"]_vars
\* read skew: "c1", which only ever writes the title "b", has returned from
\* UpdateTicket with the title "a" that "c2" (still before its own re-read)
\* wrote to the same ticket after it
C17_Witness ==
    /\ last.op = "UpdateTicket" /\ last.err = "OK"
    /\ calls["c1"].pc = "idle"
    /\ calls["c2"].pc = "reread"
    /\ calls["c2"].ticket.ID = last.id
    /\ calls["c2"].ticket.Title = TitleA
    /\ last.out.Title = TitleA
    /\ last.out.DateUpdated = 3
    /\ last.out.DateCreated = 1

\* C18: a CreateTicket, UpdateTicket or DeleteTicket whose context is
\* cancelled during its unit of work returns the cancellation error (not
\* NotFound, not AlreadyExists) and leaves every ticket and the counter as
\* before the call.
C18_CancelledWritesNothing ==
    [][\A op \in {"CreateTicket", "UpdateTicket", "DeleteTicket"} :
          (Returned(op) /\ last'.fault = "Canceled") =>
              /\ last'.err = "Canceled"
              /\ coll' = coll
              /\ now' = now]_vars
\* a cancelled create of a ticket that is not stored has returned: the
\* ticket is still not stored and the counter still counts no ticket
C18_Witness ==
    /\ last.op = "CreateTicket"
    /\ last.fault = "Canceled"
    /\ last.err = "Canceled"
    /\ ~Exists(String(last.id))
    /\ Exists(counterDocID)
    /\ TotalTickets = 0

\* A response has been written to the request decoded last.
Responded == resp.status # 0

\* C19: in the handlers of read one, update, delete and list, a NotFound
\* error of the store is answered with 404, a validation failure with 422
\* and every other error with 500.
C19_ErrorStatus ==
    (/\ Responded
     /\ resp.handler \in {"handleReadTicket", "handleUpdateTicket", "handleDeleteTicket",
                           "handleReadTickets"}) =>
        /\ resp.err = "NotFound" => resp.status = 404
        /\ resp.err = "Validation" => resp.status = 422
        /\ resp.err \notin {"OK", "NotFound", "Validation"} => resp.status = 500

\* handleUpdateTicket decodes a request in this step.
UpdateRequested ==
    /\ \A c \in Callers : Idle(c)
    /\ resp'.handler = "handleUpdateTicket"
    /\ resp' # resp \/ calls' # calls

\* C20: an update request whose title is the empty string or whose price is
\* 0 is answered with a validation failure and the store is not called; a
\* request accepted by the store leaves the stored title (price) as it was
\* when the field is absent and stores the supplied value otherwise.
C20_AbsentIsNotEmpty ==
    [][UpdateRequested =>
          LET name == String(resp'.id) IN
          /\ (resp'.title = <<NoTitle>> \/ resp'.price = <<0>>) =>
                 /\ resp'.err = "Validation" /\ resp'.status = 422
                 /\ UNCHANGED <<coll, now, calls, last>>
          /\ coll' # coll =>
                 /\ coll'[name].title = IF resp'.title = <<>> THEN coll[name].title
                                        ELSE resp'.title[1]
                 /\ coll'[name].price = IF resp'.price = <<>> THEN coll[name].price
                                        ELSE resp'.price[1]]_vars
\* a request with the title "" and no price, for a stored ticket, has been
\* rejected: the ticket keeps its title and was never updated
C20_Witness ==
    /\ resp.handler = "handleUpdateTicket"
    /\ resp.title = <<NoTitle>> /\ resp.price = <<>>
    /\ resp.status = 422
    /\ Exists(String(resp.id))
    /\ coll[String(resp.id)].title = TitleA
    /\ "dateUpdated" \notin DOMAIN coll[String(resp.id)]

\* C21 as stated: a CreateTicket (not aborted) on a collection that holds no
\* document at all, so no counter document, succeeds and leaves the counter
\* document with TotalTickets = 1.
C21_FirstCreateMakesCounter ==
    [][(Returned("CreateTicket") /\ last'.fault = "none" /\ DOMAIN coll = {}) =>
          /\ last'.err = "OK"
          /\ counterDocID \in DOMAIN coll'
          /\ coll'[counterDocID].totalTickets = 1]_vars

\* C21: ticket creation never creates the counter document.  While it is
\* missing no step writes anything, and every CreateTicket fails: with the
\* store's own not-found error of the counter update unless the transaction
\* was aborted, and never with tixer's NotFound or with AlreadyExists.
C21_CounterIsProvisioned ==
    [][~Exists(counterDocID) =>
          /\ coll' = coll
          /\ Returned("CreateTicket") =>
                 /\ last'.err # "OK"
                 /\ last'.fault = "none" => last'.err = "StoreNotFound"]_vars
\* a create that was not aborted has failed on the missing counter document
\* and has left the collection empty
C21_Witness ==
    /\ last.op = "CreateTicket"
    /\ last.fault = "none"
    /\ last.err = "StoreNotFound"
    /\ DOMAIN coll = {}
    /\ creates = 0

\* C22: ValidateTitle records a failure exactly when the title is empty or
\* has more than 50 characters; a title of 1 to 50 characters passes,
\* whatever its characters.
C22_TitleOfUpTo50Characters ==
    vld.checked => (~vld.valid <=> (Len(vld.title) = 0 \/ Len(vld.title) > 50))

\* C23: with two callers and a provisioned counter, in every interleaving a
\* CreateTicket of an ID without document and a DeleteTicket of a stored
\* ticket succeed (no transaction being aborted) and move TotalTickets by
\* exactly +1 and -1; at every moment TotalTickets is the number of creates
\* minus the number of deletes that have returned nil.
C23_NoLostCounterUpdate ==
    [][/\ (/\ Returned("CreateTicket") /\ last'.fault = "none"
           /\ ~Exists(String(last'.id)) /\ Exists(counterDocID)) =>
              /\ last'.err = "OK"
              /\ coll'[counterDocID].totalTickets = TotalTickets + 1
       /\ (/\ Returned("DeleteTicket") /\ last'.fault = "none"
           /\ Exists(String(last'.id)) /\ Exists(counterDocID)) =>
              /\ last'.err = "OK"
              /\ coll'[counterDocID].totalTickets = TotalTickets - 1
       /\ counterDocID \in DOMAIN coll' =>
              coll'[counterDocID].totalTickets = creates' - deletes']_vars
\* two creates and one delete of a stored ticket have returned while the
\* other caller is in the middle of a call: one ticket is stored, and counted
C23_Witness ==
    /\ creates = 2 /\ deletes = 1
    /\ Cardinality(TicketNames) = 1
    /\ TotalTickets = 1
    /\ \E c \in Callers : ~Idle(c)

\* C24: of two CreateTicket calls with the same ID made by concurrent callers,
\* the one that commits first succeeds and stores its own title and price and
\* adds one to TotalTickets; the other fails with AlreadyExists and leaves the
\* winner's document and TotalTickets as they are.
C24_OneCreateWins ==
    [][(Returned("CreateTicket") /\ Exists(counterDocID)) =>
        LET name == String(last'.id) IN
        IF Exists(name)
        THEN /\ last'.err = "AlreadyExists"
             /\ coll' = coll
             /\ fresh' = fresh
        ELSE /\ last'.err = "OK"
             /\ <<coll'[name].title, coll'[name].price>>
                    \in {<<TitleA, 1>>, <<TitleC, 3>>}
             /\ coll'[name].title = fresh'[last'.id].Title
             /\ coll'[name].price = fresh'[last'.id].Price
             /\ coll'[counterDocID].totalTickets = TotalTickets + 1
             /\ \A n \in TicketNames : coll'[n] = coll[n]]_vars

\* C24 witness: "c2" created the ticket with its title and price and is now
\* in the middle of a listing; the create of "c1" on the same ID returned
\* AlreadyExists, the document still carries the title and price of "c2" and
\* TotalTickets is 1.
C24_Witness ==
    /\ ~Idle("c2")
    /\ last.op = "CreateTicket"
    /\ last.err = "AlreadyExists"
    /\ creates = 1
    /\ TotalTickets = 1
    /\ Exists(String(last.id))
    /\ coll[String(last.id)].title = TitleC
    /\ coll[String(last.id)].price = 3

\* C25: the transaction of an UpdateTicket commits only on a stored ticket
\* and changes only the fields it was given and dateUpdated, so a title-only
\* and a price-only update of the same ticket by concurrent callers both
\* commit, both return without error and leave the ticket with the new title
\* and the new price; and no step other than a successful CreateTicket adds a
\* document, so an update never brings back a ticket that a concurrent
\* DeleteTicket removed.
C25_NoLostUpdate ==
    [][/\ \A c \in Callers :
            LET t == calls'[c].ticket
                name == String(t.ID)
            IN /\ Committed(c) =>
                    /\ Exists(name)
                    /\ OthersUnchanged(name)
                    /\ name \in DOMAIN coll'
                    /\ coll'[name].title =
                           (IF t.Title # NoTitle THEN t.Title ELSE coll[name].title)
                    /\ coll'[name].price =
                           (IF t.Price # 0 THEN t.Price ELSE coll[name].price)
                    /\ coll'[name].dateCreated = coll[name].dateCreated
               /\ (calls[c].pc = "reread" /\ calls'[c].pc = "idle"
                      /\ Exists(String(calls[c].ticket.ID))) =>
                    /\ last'.err = "OK"
                    /\ last'.out.Title = coll[String(calls[c].ticket.ID)].title
                    /\ last'.out.Price = coll[String(calls[c].ticket.ID)].price
       /\ DOMAIN coll' \ DOMAIN coll # {} =>
            (Returned("CreateTicket") /\ last'.err = "OK")]_vars

\* C25 witness: "c1" updated only the title (to "b") and "c2" only the price
\* (to 2) of the same ticket, both transactions committed before either call
\* returned; one call has returned the ticket with title "b" and price 2 and
\* the other is still before its re-read.  No create stores "b" or 2.
C25_Witness ==
    /\ last.op = "UpdateTicket" /\ last.err = "OK"
    /\ calls["c1"].pc = "idle"
    /\ calls["c2"].pc = "reread"
    /\ calls["c2"].ticket.ID = last.id
    /\ calls["c2"].ticket.Price = 2
    /\ last.out.Title = TitleB
    /\ last.out.Price = 2
    /\ coll[String(last.id)].title = TitleB
    /\ coll[String(last.id)].price = 2
    /\ creates = 1

\* C26: an UpdateTicket whose transaction committed (the call is before its
\* re-read) does not return NotFound, whatever DeleteTicket calls run between
\* the commit and the return.
C26_NotFoundMeansNoWrite ==
    [][\A c \in Callers :
          (calls[c].pc = "reread" /\ calls'[c].pc = "idle") =>
              ~(Returned("UpdateTicket") /\ last'.err = "NotFound")]_vars

\* C27: a ReadTickets that returns an empty page returns no error, with
\* Total the value of the counter and with Metadata.After and
\* Metadata.Before the all-zero ID; a client that passes the Metadata.After
\* of the empty page at the end of its traversal as Filter.After, with the
\* same Limit, passes the all-zero ID and gets the first page of the
\* collection: its first Limit tickets in DateCreated-descending order, which
\* is not empty when the collection holds a ticket.
C27_EmptyPageCursorIsNoCursor ==
    [][Returned("ReadTickets") =>
        /\ (last'.err = "OK" /\ last'.tt = <<>>) =>
              last'.meta = [Before |-> NilUUID, After |-> NilUUID, Total |-> TotalTickets]
        /\ trav.state = "again" =>
              /\ last'.err = "OK"
              /\ last'.filter.After = NilUUID
              /\ last'.tt = SubSeq(AllTickets, 1, Min(trav.limit, Len(AllTickets)))
              /\ Len(AllTickets) > 0 => last'.tt # <<>>]_vars

\* C27 witness: a traversal of three tickets with Limit 2 ended on an empty
\* page; the call made with that page's Metadata.After has returned the two
\* newest tickets, the first page.
C27_Witness ==
    /\ trav.state = "again"
    /\ trav.limit = 2
    /\ Len(trav.acc) = 3
    /\ PageReturned
    /\ last.filter.After = NilUUID
    /\ last.tt = SubSeq(trav.acc, 1, 2)
    /\ last.meta.Total = 3

====
